---- MODULE Spec2Model ----
(***************************************************************************)
(* A model of the Sri Lankan market agent: ConversationMemory              *)
(* (src/src/memory/conversation_memory.py), VectorStore                    *)
(* (src/src/memory/vector_store.py) and MarketAgent.chat with its tool     *)
(* dispatch (src/src/agent/market_agent.py).                               *)
(*                                                                         *)
(* Text is a sequence of atoms.  An atom is an indivisible piece of a      *)
(* Python string: a marker ("USE_TOOL:", "INPUT:"), a word, a blank " "    *)
(* or a newline "\n".  String concatenation is \o, str.split("\n") is      *)
(* Lines, str.strip() is Strip, str.replace(marker, "") is Remove.         *)
(***************************************************************************)
EXTENDS Integers, Sequences, FiniteSets, TLC

VARIABLES
    \* ConversationMemory
    max_turns,        \* self.max_turns
    memory_messages,  \* self.messages, the deque(maxlen = 2 * max_turns)
    system_message,   \* self._system_message; has = FALSE when the attribute is unset
    mem_op,           \* history: the last call, if add_system_message or clear, and the
                      \* pinned message and the deque it found
    added,            \* history: the user/assistant messages added since the last clear
    \* VectorStore
    HAS_SKLEARN,      \* module constant set by the import at vector_store.py:10-15
    documents,        \* self.documents
    vectorizer,       \* self.vectorizer: "none", "unfitted" or "fitted"
    tfidf_matrix,     \* self.tfidf_matrix: the documents its rows were computed from
    store_file,       \* the file at self.store_path
    sessions,         \* how many sessions use the agent: 1, or more under st.cache_resource
    mutation,         \* how far a running add_documents() or clear() has got; "idle" if none
    vs_op,            \* the last VectorStore operation and how it ended
    query_text,       \* arguments and locals of the last query()
    n_results,
    similarities,
    top_indices,
    results,
    \* MarketAgent.chat
    pc,               \* position of the running chat(): Idle, Generating, Inspecting, Dispatching, Done
    user_input,
    messages,         \* the local list sent to the backend
    response,         \* the latest generated text
    iteration,        \* dispatch iterations completed in this invocation
    tool_result,      \* the latest tool result
    tool_raised,      \* whether the latest tool call raised inside _execute_tool
    returned,         \* the value chat() returned
    failed,           \* whether this invocation ended in the except branch
    gen_calls,        \* generation calls issued by this invocation
    tool_execs,       \* _execute_tool calls made by this invocation
    sent,             \* the message list of the latest generation call
    chats,            \* chat() invocations started
    \* GroqLLM.generate
    llm_pc,           \* position of generate(): Idle, Requesting, Returned, Raised
    max_retries,      \* its argument
    attempt,          \* its loop variable
    requests,         \* history: backend requests sent by this call
    waits,            \* history: the seconds slept by this call, in order
    call_count,       \* self.call_count
    llm_result        \* what the call returned, or the text of the exception it raised

memVars == <<max_turns, memory_messages, system_message, added, mem_op>>
vsVars == <<HAS_SKLEARN, documents, vectorizer, tfidf_matrix, store_file, mutation, sessions>>
queryVars == <<vs_op, query_text, n_results, similarities, top_indices, results>>
llmVars == <<llm_pc, max_retries, attempt, requests, waits, call_count, llm_result>>
chatVars == <<pc, user_input, messages, response, iteration, tool_result, tool_raised,
              returned, failed, gen_calls, tool_execs, sent, chats, llmVars>>
vars == <<memVars, vsVars, queryVars, chatVars>>

---------------------------------------------------------------------------
(* Bounds of the model *)

\* largest max_turns a memory is constructed with in MemSpec
MaxT == 1
\* most user/assistant messages added between two clears in MemSpec
MaxAdds == 4
\* most documents held by a VectorStore in StoreSpec
MaxDocs == 2
\* largest n_results passed to query() in StoreSpec
MaxLimit == 2
\* chat() invocations per behaviour in Spec
MaxChats == 1

---------------------------------------------------------------------------
(* Text helpers *)

Whitespace == {" ", "\n"}

Min(a, b) == IF a <= b THEN a ELSE b

Max(a, b) == IF a >= b THEN a ELSE b

\* str.strip(): the text between the first and the last atom that is not whitespace
Strip(s) ==
    LET solid == {i \in 1..Len(s) : s[i] \notin Whitespace}
    IN IF solid = {} THEN <<>>
       ELSE SubSeq(s, CHOOSE i \in solid : \A j \in solid : i <= j,
                      CHOOSE i \in solid : \A j \in solid : j <= i)

\* the atom two adjacent pieces of text form when they spell a marker
Joined(a, b) ==
    CASE a = "USE_" /\ b = "TOOL:" -> "USE_TOOL:"
      [] a = "IN" /\ b = "PUT:" -> "INPUT:"
      [] OTHER -> ""

\* the text as atoms: pieces that stand next to each other and spell a marker are that
\* marker.  No second piece of a marker is the first piece of one, so the pairs are disjoint.
Fuse(s) ==
    LET second == {i \in 2..Len(s) : Joined(s[i - 1], s[i]) # ""}
        kept == (1..Len(s)) \ second
        at(k) == CHOOSE i \in kept : Cardinality({j \in kept : j <= i}) = k
    IN IF second = {} THEN s
       ELSE [k \in 1..Cardinality(kept) |->
                IF at(k) + 1 \in second THEN Joined(s[at(k)], s[at(k) + 1]) ELSE s[at(k)]]

\* str.replace(marker, ""): every occurrence is cut out in one pass and the rest is joined,
\* so the pieces on both sides of a removed marker may spell a marker themselves
Remove(s, marker) ==
    CHOOSE r \in {Fuse(cut) : cut \in {SelectSeq(s, LAMBDA a : a # marker)}} : TRUE

\* marker in s
Contains(s, marker) == \E i \in 1..Len(s) : s[i] = marker

\* s.startswith(marker)
StartsWith(s, marker) == s # <<>> /\ Head(s) = marker

\* the position of the k-th newline of s; 0 for k = 0, Len(s) + 1 past the last one
Newline(s, k) ==
    LET at == {i \in 1..Len(s) : s[i] = "\n"}
    IN IF k = 0 THEN 0
       ELSE IF k > Cardinality(at) THEN Len(s) + 1
       ELSE CHOOSE i \in at : Cardinality({j \in at : j <= i}) = k

\* s.split("\n"): the pieces between consecutive newlines
Lines(s) ==
    [k \in 1..(Cardinality({i \in 1..Len(s) : s[i] = "\n"}) + 1) |->
        SubSeq(s, Newline(s, k - 1) + 1, Newline(s, k) - 1)]

\* str.lower() on an atom
LowerAtom(a) ==
    CASE a = "Calculator" -> "calculator"
      [] a = "WebScraper" -> "webscraper"
      [] a = "SearchKnowledge" -> "searchknowledge"
      [] a = "Tea" -> "tea"
      [] a = "Sri" -> "sri"
      [] a = "Lanka's" -> "lanka's"
      [] a = "Colombo" -> "colombo"
      [] OTHER -> a

Lower(s) == [i \in 1..Len(s) |-> LowerAtom(s[i])]

\* set(s.split()): the whitespace-separated words, each a maximal run of atoms
WordsOf(s) ==
    LET blank(i) == i < 1 \/ i > Len(s) \/ s[i] \in Whitespace
    IN {SubSeq(s, i, j) : <<i, j>> \in
           {p \in (1..Len(s)) \X (1..Len(s)) :
               /\ p[1] <= p[2]
               /\ blank(p[1] - 1)
               /\ blank(p[2] + 1)
               /\ \A k \in p[1]..p[2] : ~blank(k)}}

\* the same, with the text evaluated once
Words(s) == UNION {WordsOf(text) : text \in {s}}

---------------------------------------------------------------------------
(* ConversationMemory *)

Msg(role, content) == [role |-> role, content |-> content]

NoSystemMessage == [has |-> FALSE, msg |-> Msg("system", <<>>)]

\* mutant of DequeAppend: a full deque refuses the new entry instead of dropping the oldest
DequeAppendKeepsOldest(dq, x, maxlen) ==
    LET all == Append(dq, x)
    IN IF Len(all) <= maxlen THEN all ELSE SubSeq(all, 1, maxlen)

\* deque(maxlen = n).append(x): the oldest entries fall off the left end
DequeAppend(dq, x, maxlen) ==
    LET all == Append(dq, x)
    IN IF Len(all) <= maxlen THEN all
       ELSE SubSeq(all, Len(all) - maxlen + 1, Len(all))

RECURSIVE DequeExtend(_, _, _)
DequeExtend(dq, xs, maxlen) ==
    IF xs = <<>> THEN dq
    ELSE DequeExtend(DequeAppend(dq, Head(xs), maxlen), Tail(xs), maxlen)

MemMaxLen == max_turns * 2

\* ConversationMemory.add_user_message
MemAddUser(dq, content, maxlen) == DequeAppend(dq, Msg("user", content), maxlen)

\* mutant of MemAddAssistant: the message is not appended
MemAddAssistantDropped(dq, content, maxlen) == dq

\* ConversationMemory.add_assistant_message
MemAddAssistant(dq, content, maxlen) == DequeAppend(dq, Msg("assistant", content), maxlen)

\* mutant of MemAddSystemDeque: the system message is put into the deque with the others
MemAddSystemDequeUnfiltered(dq, content, maxlen) ==
    DequeExtend(<<>>, <<Msg("system", content)>> \o dq, maxlen)

\* ConversationMemory.add_system_message: the deque after the call
MemAddSystemDeque(dq, content, maxlen) ==
    LET messages_list == <<Msg("system", content)>> \o dq
    IN DequeExtend(<<>>, SelectSeq(messages_list, LAMBDA m : m.role # "system"), maxlen)

\* mutant of GetMessages: the system message is appended after the window
GetMessagesSystemLast(sys, dq) == dq \o (IF sys.has THEN <<sys.msg>> ELSE <<>>)

\* ConversationMemory.get_messages
GetMessages(sys, dq) == (IF sys.has THEN <<sys.msg>> ELSE <<>>) \o dq

\* str(n) of a natural number: its decimal digits
RECURSIVE IntText(_)
IntText(n) ==
    LET digit == <<"0", "1", "2", "3", "4", "5", "6", "7", "8", "9">>[(n % 10) + 1]
    IN IF n < 10 THEN <<digit>> ELSE IntText(n \div 10) \o <<digit>>

\* ConversationMemory.get_summary
GetSummary(sys, dq) ==
    IF dq = <<>> /\ ~sys.has
    THEN <<"No conversation history">>
    ELSE IntText(Len(dq)) \o <<" ", "messages in history">>

---------------------------------------------------------------------------
(* Inputs of the memory operations *)

Contents == {<<"A">>, <<"B">>, <<"C">>, <<"D">>}

SystemContents == {<<"S1">>, <<"S2">>}

\* ConversationMemory.__init__
\* no add_system_message or clear was the last call on the memory
NoMemOp == [op |-> "none", system_message |-> NoSystemMessage, messages |-> <<>>]

MemoryInit(T) ==
    /\ max_turns = T
    /\ memory_messages = <<>>
    /\ system_message = NoSystemMessage
    /\ added = <<>>
    /\ mem_op = NoMemOp

\* ConversationMemory.add_user_message
AddUserMessage(content) ==
    /\ Len(added) < MaxAdds
    /\ memory_messages' = MemAddUser(memory_messages, content, MemMaxLen)
    /\ added' = Append(added, Msg("user", content))
    /\ mem_op' = NoMemOp
    /\ UNCHANGED <<max_turns, system_message>>

\* ConversationMemory.add_assistant_message
AddAssistantMessage(content) ==
    /\ Len(added) < MaxAdds
    /\ memory_messages' = MemAddAssistant(memory_messages, content, MemMaxLen)
    /\ added' = Append(added, Msg("assistant", content))
    /\ mem_op' = NoMemOp
    /\ UNCHANGED <<max_turns, system_message>>

\* ConversationMemory.add_system_message
AddSystemMessage(content) ==
    /\ memory_messages' = MemAddSystemDeque(memory_messages, content, MemMaxLen)
    /\ system_message' = [has |-> TRUE, msg |-> Msg("system", content)]
    /\ mem_op' = [op |-> "system", system_message |-> system_message,
                  messages |-> memory_messages]
    /\ UNCHANGED <<max_turns, added>>

\* mutant of MemoryClear: the pinned message survives
MemoryClearKeepsPinned ==
    /\ memory_messages' = <<>>
    /\ added' = <<>>
    /\ mem_op' = [op |-> "clear", system_message |-> system_message,
                  messages |-> memory_messages]
    /\ UNCHANGED <<max_turns, system_message>>

\* ConversationMemory.clear
MemoryClear ==
    /\ memory_messages' = <<>>
    /\ system_message' = NoSystemMessage
    /\ added' = <<>>
    /\ mem_op' = [op |-> "clear", system_message |-> system_message,
                  messages |-> memory_messages]
    /\ UNCHANGED max_turns

---------------------------------------------------------------------------
(* VectorStore: documents, scoring and ranking *)

\* the document texts handed to add_documents
DocTexts == {<<"the">>, <<"tea">>}

\* the query texts handed to query
QueryTexts == {<<"tea">>, <<"Tea", " ", "export">>}

\* the lists handed to add_documents: every list of at most two document texts
Batches == {<<>>} \cup {<<d>> : d \in DocTexts} \cup {<<d, e>> : d \in DocTexts, e \in DocTexts}

\* A score is a fraction <<numerator, denominator>> with a positive denominator
ScoreLeq(a, b) == a[1] * b[2] <= b[1] * a[2]

ScoreEq(a, b) == a[1] * b[2] = b[1] * a[2]

\* the levels a cosine similarity is drawn from, as numerators over SimDenominator
SimLevels == {0, 1}

SimDenominator == Max(1, Cardinality(SimLevels) - 1)

\* Words from which TfidfVectorizer(stop_words='english') extracts no term: an English
\* stop word, or a word with no run of two or more word characters
NoTermWords == {<<"the">>, <<"1/0">>}

\* TfidfVectorizer.fit_transform raises ValueError (empty vocabulary) on such a corpus
EmptyVocabulary(docs) == \A i \in 1..Len(docs) : Words(docs[i]) \subseteq NoTermWords

NoMatrix == [has |-> FALSE, docs |-> <<>>]

\* VectorStore._rebuild_index: the attributes after the call and whether it raised
RebuildIndex(docs, sklearn, old_matrix) ==
    IF docs = <<>>
    THEN [vectorizer |-> "none", tfidf_matrix |-> NoMatrix, raised |-> FALSE]
    ELSE IF sklearn
    THEN IF EmptyVocabulary(docs)
         THEN [vectorizer |-> "unfitted", tfidf_matrix |-> old_matrix, raised |-> TRUE]
         ELSE [vectorizer |-> "fitted", tfidf_matrix |-> [has |-> TRUE, docs |-> docs],
               raised |-> FALSE]
    ELSE [vectorizer |-> "none", tfidf_matrix |-> NoMatrix, raised |-> FALSE]

\* the fallback score of one document: keyword overlap over the query's word count
KeywordScore(q, doc) ==
    LET query_words == Words(Lower(q))
        doc_words == Words(Lower(doc))
    IN <<Cardinality(query_words \cap doc_words), Max(Cardinality(query_words), 1)>>

\* the fallback branch of query: one score per stored document
KeywordSimilarities(q, docs) == [i \in 1..Len(docs) |-> KeywordScore(q, docs[i])]

\* the TF-IDF branch of query: cosine_similarity gives one score per row of the matrix,
\* equal rows scoring equally; level is the score of each document text
TfidfSimilarities(level, matrix) ==
    [i \in 1..Len(matrix.docs) |-> <<level[matrix.docs[i]], SimDenominator>>]

\* the orders of the indices 1..n, for every n a collection of the model can have
IndexOrders ==
    [n \in 0..(MaxDocs + MaxChats) |->
        {p \in [1..n -> 1..n] : \A i \in 1..n : \E j \in 1..n : p[j] = i}]

\* np.argsort(similarities): ascending by score; the default sort is not stable, so
\* equal scores may come out in any order
ArgsortOutcomes(sims) ==
    {p \in IndexOrders[Len(sims)] :
        \A i \in 1..(Len(sims) - 1) : ScoreLeq(sims[p[i]], sims[p[i + 1]])}

Reverse(s) == [i \in 1..Len(s) |-> s[Len(s) + 1 - i]]

\* mutant of TopIndices: the slice is not reversed
TopIndicesAscending(order, top_k) ==
    IF top_k = 0 THEN order
    ELSE SubSeq(order, Max(1, Len(order) - top_k + 1), Len(order))

\* order[-top_k:][::-1]; order[-0:] is the whole array
TopIndices(order, top_k) ==
    IF top_k = 0 THEN Reverse(order)
    ELSE Reverse(SubSeq(order, Max(1, Len(order) - top_k + 1), Len(order)))

\* the result list built from top_indices
BuildResults(indices, docs, sims) ==
    [i \in 1..Len(indices) |-> [text |-> docs[indices[i]], score |-> sims[indices[i]]]]

\* f"[{i}]"
IndexLabel(i) == CASE i = 1 -> "[1]" [] i = 2 -> "[2]" [] i = 3 -> "[3]" [] OTHER -> "[n]"

\* VectorStore.format_context
RECURSIVE FormatEntries(_, _)
FormatEntries(res, i) ==
    IF i > Len(res) THEN <<>>
    ELSE <<IndexLabel(i), " ">> \o res[i].text \o <<"\n", "\n">> \o FormatEntries(res, i + 1)

FormatContext(res) ==
    IF res = <<>> THEN <<>>
    ELSE <<"Relevant information from knowledge base:", "\n", "\n">> \o FormatEntries(res, 1)

---------------------------------------------------------------------------
(* VectorStore: persistence *)

AbsentFile == [state |-> "absent", data |-> [documents |-> <<>>]]

CorruptFile == [state |-> "corrupt", data |-> [documents |-> <<>>]]

\* pickle.dump({"documents": self.documents}, f) into the opened file
PickleFile(docs) == [state |-> "ok", data |-> [documents |-> docs]]

\* VectorStore._save: the file afterwards.  io is how the write went: "ok", "refused"
\* (mkdir or open raised, file untouched) or "partial" (the dump raised after open(.., 'wb')
\* truncated the file); every exception is swallowed
SaveFile(docs, file, io) ==
    CASE io = "ok" -> PickleFile(docs)
      [] io = "refused" -> file
      [] io = "partial" -> CorruptFile

SaveOutcomes == {"ok", "refused", "partial"}

\* mutant of LoadFile: no try/except around pickle.load, a file that fails to parse raises
LoadFileUnguarded(file, sklearn) ==
    IF file.state = "ok"
    THEN LET docs == file.data.documents
             rebuilt == RebuildIndex(docs, sklearn, NoMatrix)
         IN [documents |-> docs, vectorizer |-> rebuilt.vectorizer,
             tfidf_matrix |-> rebuilt.tfidf_matrix, raised |-> FALSE]
    ELSE [documents |-> <<>>, vectorizer |-> "none", tfidf_matrix |-> NoMatrix,
          raised |-> file.state = "corrupt"]

\* VectorStore._load: documents, vectorizer and matrix after it ran on a fresh object;
\* raised tells whether an exception leaves _load: none does, an absent file is not opened
\* and every exception of open, pickle.load and _rebuild_index is caught
LoadFile(file, sklearn) ==
    IF file.state = "ok"
    THEN LET docs == file.data.documents
             rebuilt == RebuildIndex(docs, sklearn, NoMatrix)
         IN [documents |-> docs, vectorizer |-> rebuilt.vectorizer,
             tfidf_matrix |-> rebuilt.tfidf_matrix, raised |-> FALSE]
    ELSE [documents |-> <<>>, vectorizer |-> "none", tfidf_matrix |-> NoMatrix,
          raised |-> FALSE]

---------------------------------------------------------------------------
(* VectorStore: the operations as functions of the object's state *)

Range(f) == {f[i] : i \in DOMAIN f}

Store(docs, vec, matrix, file) ==
    [documents |-> docs, vectorizer |-> vec, tfidf_matrix |-> matrix, store_file |-> file]

\* mutant of StoreAdd: the snapshot holds the added list, not the whole collection
StoreAddSavesBatch(st, batch, sklearn, io) ==
    IF batch = <<>>
    THEN [st |-> st, raised |-> FALSE, io |-> "none"]
    ELSE LET docs == st.documents \o batch
             rebuilt == RebuildIndex(docs, sklearn, st.tfidf_matrix)
         IN IF rebuilt.raised
            THEN [st |-> Store(docs, rebuilt.vectorizer, rebuilt.tfidf_matrix, st.store_file),
                  raised |-> TRUE, io |-> "none"]
            ELSE [st |-> Store(docs, rebuilt.vectorizer, rebuilt.tfidf_matrix,
                               SaveFile(batch, st.store_file, io)),
                  raised |-> FALSE, io |-> io]

\* mutant of StoreAdd: no early return, an empty list rebuilds and saves as well
StoreAddEmptyRewrites(st, batch, sklearn, io) ==
    LET docs == st.documents \o batch
        rebuilt == RebuildIndex(docs, sklearn, st.tfidf_matrix)
    IN IF rebuilt.raised
       THEN [st |-> Store(docs, rebuilt.vectorizer, rebuilt.tfidf_matrix, st.store_file),
             raised |-> TRUE, io |-> "none"]
       ELSE [st |-> Store(docs, rebuilt.vectorizer, rebuilt.tfidf_matrix,
                          SaveFile(docs, st.store_file, io)),
             raised |-> FALSE, io |-> io]

\* VectorStore.add_documents: the state afterwards, whether it raised, how the save went
StoreAdd(st, batch, sklearn, io) ==
    IF batch = <<>>
    THEN [st |-> st, raised |-> FALSE, io |-> "none"]
    ELSE LET docs == st.documents \o batch
             rebuilt == RebuildIndex(docs, sklearn, st.tfidf_matrix)
         IN IF rebuilt.raised
            THEN [st |-> Store(docs, rebuilt.vectorizer, rebuilt.tfidf_matrix, st.store_file),
                  raised |-> TRUE, io |-> "none"]
            ELSE [st |-> Store(docs, rebuilt.vectorizer, rebuilt.tfidf_matrix,
                               SaveFile(docs, st.store_file, io)),
                  raised |-> FALSE, io |-> io]

\* mutant of StoreClear: the snapshot is never deleted
StoreClearKeepsFile(st, unlinked) == Store(<<>>, "none", NoMatrix, st.store_file)

\* VectorStore.clear; unlinked tells whether store_path.unlink() succeeded
StoreClear(st, unlinked) ==
    Store(<<>>, "none", NoMatrix,
          IF st.store_file.state # "absent" /\ unlinked THEN AbsentFile ELSE st.store_file)

\* VectorStore.__init__ on the path of an earlier object
StoreConstruct(file, sklearn) ==
    LET loaded == LoadFile(file, sklearn)
    IN Store(loaded.documents, loaded.vectorizer, loaded.tfidf_matrix, file)

NoQuery == [raised |-> FALSE, similarities |-> <<>>, top_indices |-> <<>>, results |-> <<>>]

\* the outcomes of ranking a similarity vector
RankOutcomes(sims, docs, n) ==
    LET top_k == Min(n, Len(docs))
        picks == {TopIndices(order, top_k) : order \in ArgsortOutcomes(sims)}
    IN {[raised |-> FALSE, similarities |-> sims, top_indices |-> top,
         results |-> BuildResults(top, docs, sims)] : top \in picks}

\* the similarity vectors query can compute: one per outcome of cosine_similarity in the
\* TF-IDF branch, the keyword scores in the fallback branch
SimilarityOutcomes(st, q, sklearn) ==
    IF sklearn /\ st.vectorizer # "none"
    THEN {TfidfSimilarities(level, st.tfidf_matrix) :
             level \in [Range(st.tfidf_matrix.docs) -> SimLevels]}
    ELSE {KeywordSimilarities(q, st.documents)}

\* VectorStore.query: every outcome the call can have in state st
QueryOutcomes(st, q, n, sklearn) ==
    IF st.documents = <<>> THEN {NoQuery}
    ELSE IF sklearn /\ st.vectorizer = "unfitted" THEN {[NoQuery EXCEPT !.raised = TRUE]}
    ELSE IF sklearn /\ st.vectorizer = "fitted" /\ ~st.tfidf_matrix.has
    THEN {[NoQuery EXCEPT !.raised = TRUE]}
    ELSE UNION {RankOutcomes(sims, st.documents, n) : sims \in SimilarityOutcomes(st, q, sklearn)}

---------------------------------------------------------------------------
(* VectorStore: actions *)

TheStore == Store(documents, vectorizer, tfidf_matrix, store_file)

SetStore(st) ==
    /\ documents' = st.documents
    /\ vectorizer' = st.vectorizer
    /\ tfidf_matrix' = st.tfidf_matrix
    /\ store_file' = st.store_file
    /\ mutation' = "idle"
    /\ sessions' = sessions

ClearQueryLocals ==
    /\ query_text' = <<>>
    /\ n_results' = 0
    /\ similarities' = <<>>
    /\ top_indices' = <<>>
    /\ results' = <<>>

\* the files a VectorStore may find at its path when it is first constructed
InitialFiles == {AbsentFile, CorruptFile, PickleFile(<<<<"tea">>>>)}

\* VectorStore.__init__ in an agent used by `shared` sessions
StoreInitShared(file, sklearn, shared) ==
    /\ HAS_SKLEARN = sklearn
    /\ sessions = shared
    /\ documents = StoreConstruct(file, sklearn).documents
    /\ vectorizer = StoreConstruct(file, sklearn).vectorizer
    /\ tfidf_matrix = StoreConstruct(file, sklearn).tfidf_matrix
    /\ store_file = file
    /\ mutation = "idle"
    /\ vs_op = [op |-> "init", raised |-> LoadFile(file, sklearn).raised, io |-> "none",
                batch |-> <<>>]
    /\ query_text = <<>>
    /\ n_results = 0
    /\ similarities = <<>>
    /\ top_indices = <<>>
    /\ results = <<>>

\* VectorStore.__init__ in an agent of one caller
StoreInit(file, sklearn) == StoreInitShared(file, sklearn, 1)

\* VectorStore.add_documents
AddDocuments(batch) ==
    /\ Len(documents) + Len(batch) <= MaxDocs
    /\ \E out \in {StoreAdd(TheStore, batch, HAS_SKLEARN, io) : io \in SaveOutcomes} :
          /\ SetStore(out.st)
          /\ vs_op' = [op |-> "add", raised |-> out.raised, io |-> out.io, batch |-> batch]
    /\ ClearQueryLocals
    /\ UNCHANGED HAS_SKLEARN

\* VectorStore.query
Query(q, n) ==
    /\ \E out \in QueryOutcomes(TheStore, q, n, HAS_SKLEARN) :
          /\ similarities' = out.similarities
          /\ top_indices' = out.top_indices
          /\ results' = out.results
          /\ vs_op' = [op |-> "query", raised |-> out.raised, io |-> "none", batch |-> <<>>]
    /\ query_text' = q
    /\ n_results' = n
    /\ UNCHANGED vsVars

\* VectorStore.clear
Clear ==
    /\ \E unlinked \in BOOLEAN :
          /\ SetStore(StoreClear(TheStore, unlinked))
          /\ vs_op' = [op |-> "clear", raised |-> FALSE, batch |-> <<>>,
                       io |-> IF store_file.state = "absent" THEN "none"
                              ELSE IF unlinked THEN "ok" ELSE "refused"]
    /\ ClearQueryLocals
    /\ UNCHANGED HAS_SKLEARN

\* the object is dropped and a new VectorStore is constructed on the same path
Reconstruct ==
    /\ SetStore(StoreConstruct(store_file, HAS_SKLEARN))
    /\ vs_op' = [op |-> "construct", raised |-> LoadFile(store_file, HAS_SKLEARN).raised,
                 io |-> "none", batch |-> <<>>]
    /\ ClearQueryLocals
    /\ UNCHANGED HAS_SKLEARN

\* where the process can die inside _save: before open(.., 'wb'), after it truncated the
\* file, while pickle.dump has written part of the data, after the data is complete
CrashPoints == {"before_open", "after_open", "mid_dump", "after_dump"}

\* the file left behind by a process that died at that point of _save
CrashedFile(docs, file, point) ==
    CASE point = "before_open" -> file
      [] point = "after_open" -> CorruptFile
      [] point = "mid_dump" -> CorruptFile
      [] point = "after_dump" -> PickleFile(docs)

\* add_documents(batch) reaches _save and the process dies inside it; on restart a new
\* VectorStore is constructed on the same path
CrashInSave(batch, point) ==
    /\ batch # <<>>
    /\ Len(documents) + Len(batch) <= MaxDocs
    /\ ~RebuildIndex(documents \o batch, HAS_SKLEARN, tfidf_matrix).raised
    /\ SetStore(StoreConstruct(CrashedFile(documents \o batch, store_file, point), HAS_SKLEARN))
    /\ vs_op' = [op |-> "crash", raised |-> FALSE, io |-> point, batch |-> batch]
    /\ ClearQueryLocals
    /\ UNCHANGED HAS_SKLEARN

---------------------------------------------------------------------------
(* VectorStore: add_documents and clear statement by statement, for callers on several
   threads that share one instance *)

\* what a mutation step records of itself
MutationOp(op, raised, io) == [op |-> op, raised |-> raised, io |-> io, batch |-> <<>>]

\* line 59: self.documents.extend(documents)
ExtendStep(batch) ==
    /\ mutation = "idle"
    /\ batch # <<>>
    /\ Len(documents) + Len(batch) <= MaxDocs
    /\ documents' = documents \o batch
    /\ mutation' = "extended"
    /\ vs_op' = MutationOp("add", FALSE, "none")
    /\ ClearQueryLocals
    /\ UNCHANGED <<HAS_SKLEARN, sessions, vectorizer, tfidf_matrix, store_file>>

\* lines 73-77 and 81-83 of _rebuild_index: self.vectorizer is assigned
VectorizerStep ==
    /\ mutation = "extended"
    /\ IF HAS_SKLEARN
       THEN /\ vectorizer' = "unfitted"
            /\ tfidf_matrix' = tfidf_matrix
            /\ mutation' = "fitting"
       ELSE /\ vectorizer' = "none"
            /\ tfidf_matrix' = NoMatrix
            /\ mutation' = "rebuilt"
    /\ vs_op' = MutationOp("add", FALSE, "none")
    /\ ClearQueryLocals
    /\ UNCHANGED <<HAS_SKLEARN, sessions, documents, store_file>>

\* line 78, inside fit_transform: the vectorizer is fitted, or ValueError leaves add_documents
FitStep ==
    /\ mutation = "fitting"
    /\ IF EmptyVocabulary(documents)
       THEN /\ vectorizer' = vectorizer
            /\ mutation' = "idle"
            /\ vs_op' = MutationOp("add", TRUE, "none")
       ELSE /\ vectorizer' = "fitted"
            /\ mutation' = "fitted"
            /\ vs_op' = MutationOp("add", FALSE, "none")
    /\ ClearQueryLocals
    /\ UNCHANGED <<HAS_SKLEARN, sessions, documents, tfidf_matrix, store_file>>

\* line 78: the matrix fit_transform returned is assigned to self.tfidf_matrix
MatrixStep ==
    /\ mutation = "fitted"
    /\ tfidf_matrix' = [has |-> TRUE, docs |-> documents]
    /\ mutation' = "rebuilt"
    /\ vs_op' = MutationOp("add", FALSE, "none")
    /\ ClearQueryLocals
    /\ UNCHANGED <<HAS_SKLEARN, sessions, documents, vectorizer, store_file>>

\* line 65: self._save()
SaveStep ==
    /\ mutation = "rebuilt"
    /\ \E io \in SaveOutcomes :
          /\ store_file' = SaveFile(documents, store_file, io)
          /\ vs_op' = MutationOp("add", FALSE, io)
    /\ mutation' = "idle"
    /\ ClearQueryLocals
    /\ UNCHANGED <<HAS_SKLEARN, sessions, documents, vectorizer, tfidf_matrix>>

\* line 211 of clear: self.documents = []
ClearDocumentsStep ==
    /\ mutation = "idle"
    /\ documents' = <<>>
    /\ mutation' = "emptied"
    /\ vs_op' = MutationOp("clear", FALSE, "none")
    /\ ClearQueryLocals
    /\ UNCHANGED <<HAS_SKLEARN, sessions, vectorizer, tfidf_matrix, store_file>>

\* lines 212-218 of clear: the index is dropped and the file unlinked
ClearIndexStep ==
    /\ mutation = "emptied"
    /\ vectorizer' = "none"
    /\ tfidf_matrix' = NoMatrix
    /\ \E unlinked \in BOOLEAN : store_file' = StoreClear(TheStore, unlinked).store_file
    /\ mutation' = "idle"
    /\ vs_op' = MutationOp("clear", FALSE, "none")
    /\ ClearQueryLocals
    /\ UNCHANGED <<HAS_SKLEARN, sessions, documents>>

---------------------------------------------------------------------------
(* Tools *)

\* mutant of Calculate: the message of the exception is returned without the prefix
CalculateUnprefixed(expression) ==
    CASE expression = <<"2+2">> -> <<"Result:", " ", "4">>
      [] expression = <<"1/0">> -> <<"Division by zero">>
      [] OTHER -> <<"invalid syntax">>

\* SafeCalculator.calculate on the expressions of the model
Calculate(expression) ==
    CASE expression = <<"2+2">> -> <<"Result:", " ", "4">>
      [] expression = <<"1/0">> -> <<"Error:", " ", "Division by zero">>
      [] OTHER -> <<"Error:", " ", "invalid syntax">>

\* how the HTTP request of scrape_webpage ends
NetOutcomes == {"page", "timeout", "error"}

\* scrape_webpage
ScrapeWebpage(url, net) ==
    IF ~(StartsWith(url, "http://") \/ StartsWith(url, "https://"))
    THEN <<"Error:", " ", "Invalid URL">>
    ELSE CASE net = "page" -> <<"Title:", " ", "CSE", "\n", "\n", "Content:", "\n", "market">>
           [] net = "timeout" -> <<"Error:", " ", "Timeout accessing", " ">> \o url
           [] net = "error" -> <<"Error:", " ", "404 Client Error">>

\* str(e) of the NotFittedError raised by TfidfVectorizer.transform
NotFittedMessage == <<"The TF-IDF vectorizer is not fitted">>

\* mutant of ToolErrorText: the exception text is passed on without the prefix
ToolErrorTextRaw(message) == message

\* f"Tool error: {str(e)}"
ToolErrorText(message) == <<"Tool error:", " ">> \o message

\* mutant of UnknownToolText: an unknown name is reported as a tool fault
UnknownToolAsError(tool_name) == <<"Tool error:", " ", "Unknown tool">>

\* f"Unknown tool: {tool_name}"
UnknownToolText(tool_name) == <<"Unknown tool:", " ">> \o tool_name

NoResultsText == <<"No relevant information found in knowledge base.">>

\* n_results of the SearchKnowledge query
SearchLimit == 2

\* the SearchKnowledge branch of _execute_tool
SearchKnowledge(st, tool_input, sklearn) ==
    {IF out.raised THEN [result |-> ToolErrorText(NotFittedMessage), raised |-> TRUE]
     ELSE IF out.results = <<>> THEN [result |-> NoResultsText, raised |-> FALSE]
     ELSE [result |-> FormatContext(out.results), raised |-> FALSE] :
        out \in QueryOutcomes(st, tool_input, SearchLimit, sklearn)}

\* MarketAgent._execute_tool: every outcome of the call
ExecuteTool(tool_name, tool_input, st, sklearn) ==
    CASE Lower(tool_name) = <<"calculator">> ->
            {[result |-> Calculate(tool_input), raised |-> FALSE]}
      [] Lower(tool_name) = <<"webscraper">> ->
            {[result |-> ScrapeWebpage(tool_input, net), raised |-> FALSE] : net \in NetOutcomes}
      [] Lower(tool_name) = <<"searchknowledge">> ->
            SearchKnowledge(st, tool_input, sklearn)
      [] OTHER -> {[result |-> UnknownToolText(tool_name), raised |-> FALSE]}

---------------------------------------------------------------------------
(* MarketAgent: directive parsing *)

None == [some |-> FALSE, v |-> <<>>]

Some(v) == [some |-> TRUE, v |-> v]

\* Python truthiness of an optional string
Truthy(x) == x.some /\ x.v # <<>>

\* mutant of ScanLines: the first USE_TOOL: line and the first INPUT: line win
RECURSIVE ScanLinesFirst(_, _, _)
ScanLinesFirst(lines, tool_name, input_value) ==
    IF lines = <<>> THEN <<tool_name, input_value>>
    ELSE LET line == Head(lines)
         IN IF StartsWith(line, "USE_TOOL:")
            THEN ScanLinesFirst(Tail(lines),
                                IF tool_name.some THEN tool_name
                                ELSE Some(Strip(Remove(line, "USE_TOOL:"))), input_value)
            ELSE IF StartsWith(line, "INPUT:")
            THEN ScanLinesFirst(Tail(lines), tool_name,
                                IF input_value.some THEN input_value
                                ELSE Some(Strip(Remove(line, "INPUT:"))))
            ELSE ScanLinesFirst(Tail(lines), tool_name, input_value)

\* the for loop of _check_tool_use over the lines
RECURSIVE ScanLines(_, _, _)
ScanLines(lines, tool_name, input_value) ==
    IF lines = <<>> THEN <<tool_name, input_value>>
    ELSE LET line == Head(lines)
         IN IF StartsWith(line, "USE_TOOL:")
            THEN ScanLines(Tail(lines), Some(Strip(Remove(line, "USE_TOOL:"))), input_value)
            ELSE IF StartsWith(line, "INPUT:")
            THEN ScanLines(Tail(lines), tool_name, Some(Strip(Remove(line, "INPUT:"))))
            ELSE ScanLines(Tail(lines), tool_name, input_value)

\* MarketAgent._check_tool_use
CheckToolUse(resp) ==
    IF Contains(resp, "USE_TOOL:")
    THEN CHOOSE call \in {ScanLines(lines, None, None) : lines \in {Lines(resp)}} : TRUE
    ELSE <<None, None>>

\* the lower-cased names _execute_tool has a branch for
KnownTools == {<<"calculator">>, <<"webscraper">>, <<"searchknowledge">>}

\* mutant of WantsTool: a directive for an unknown tool is not dispatched
WantsKnownTool(resp) ==
    /\ Truthy(CheckToolUse(resp)[1])
    /\ Truthy(CheckToolUse(resp)[2])
    /\ Lower(CheckToolUse(resp)[1].v) \in KnownTools

\* mutant of WantsTool: a tool name alone is enough
WantsToolNameOnly(resp) == Truthy(CheckToolUse(resp)[1])

\* the test "if tool_name and tool_input" of chat
WantsTool(resp) == \E call \in {CheckToolUse(resp)} : Truthy(call[1]) /\ Truthy(call[2])

\* response.replace("USE_TOOL:", "").replace("INPUT:", "").strip()
CleanUp(resp) == Strip(Remove(Remove(resp, "USE_TOOL:"), "INPUT:"))

\* the assistant message that reports a tool result
\* mutant of ToolMessage: the message holds the result only
ToolMessageResultOnly(tool_name, result) == Msg("assistant", result)

\* f"I used {tool_name} and got: {tool_result}" as an assistant message
ToolMessage(tool_name, result) ==
    Msg("assistant", <<"I used", " ">> \o tool_name \o <<" ", "and got:", " ">> \o result)

FinalAnswerRequest ==
    Msg("user", <<"Now provide the final answer based on the tool result.">>)

\* mutant of ConversationText: the record holds the answer only
ConversationTextAnswerOnly(u, final_answer) == final_answer

\* f"User asked: {user_input}\nAgent answered: {final_answer}"
ConversationText(u, final_answer) ==
    <<"User asked:", " ">> \o u \o <<"\n", "Agent answered:", " ">> \o final_answer

\* str(e) of the exception GroqLLM.generate raises after its retries, for one cause
LLMFailedMessage == <<"LLM failed after 3 attempts:", " ", "Connection error.">>

\* mutant of ErrorMsg: the text of the exception is left out
ErrorMsgWithoutCause(message) == <<"Sorry, I encountered an error:">>

\* f"Sorry, I encountered an error: {str(e)}"
ErrorMsg(message) == <<"Sorry, I encountered an error:", " ">> \o message

\* mutant of DispatchCap: range(4)
DispatchCapFour == 3 + 1

\* range(3) of the dispatch loop
DispatchCap == 3

\* max_turns of the agent's ConversationMemory
AgentMaxTurns == 10

---------------------------------------------------------------------------
(* GroqLLM.generate *)

\* largest max_retries passed to generate
MaxRetries == 3
\* largest call_count reached
MaxCallCount == 3

\* GroqLLM.__init__: self.call_count = 0
LLMInit ==
    /\ llm_pc = "Idle"
    /\ max_retries = 0
    /\ attempt = 0
    /\ requests = 0
    /\ waits = <<>>
    /\ call_count = 0
    /\ llm_result = <<>>

\* f"LLM failed after {max_retries} attempts: {e}"
GenerateError(n) ==
    <<"LLM failed after", " ">> \o IntText(n) \o <<" ", "attempts:", " ", "Connection error.">>

\* mutant of RetryAllowed: one retry more
RetryAllowedOnceMore(done, limit) == done < limit

\* attempt < max_retries - 1
RetryAllowed(done, limit) == done < limit - 1

\* wait = 2 ** attempt
Backoff(done) == 2 ^ done

\* generate(messages, max_retries = n) is called; range(0) runs no iteration and the
\* function returns None
Generate(n) ==
    /\ llm_pc \in {"Idle", "Returned", "Raised"}
    /\ call_count < MaxCallCount
    /\ max_retries' = n
    /\ attempt' = 0
    /\ requests' = 0
    /\ waits' = <<>>
    /\ llm_result' = <<>>
    /\ llm_pc' = IF n = 0 THEN "Returned" ELSE "Requesting"
    /\ UNCHANGED call_count

\* the request of this iteration succeeds: lines 63-75
RequestOk(text) ==
    /\ llm_pc = "Requesting"
    /\ requests' = requests + 1
    /\ call_count' = call_count + 1
    /\ llm_result' = text
    /\ llm_pc' = "Returned"
    /\ UNCHANGED <<max_retries, attempt, waits>>

\* the request of this iteration raises: lines 77-83
RequestFail ==
    /\ llm_pc = "Requesting"
    /\ requests' = requests + 1
    /\ IF RetryAllowed(attempt, max_retries)
       THEN /\ waits' = Append(waits, Backoff(attempt))
            /\ attempt' = attempt + 1
            /\ llm_pc' = "Requesting"
            /\ UNCHANGED llm_result
       ELSE /\ llm_result' = GenerateError(max_retries)
            /\ llm_pc' = "Raised"
            /\ UNCHANGED <<waits, attempt>>
    /\ UNCHANGED <<max_retries, call_count>>

---------------------------------------------------------------------------
(* MarketAgent.chat *)

\* the user inputs of the model
Inputs == {<<"q1">>}

PlainAnswer == <<"Colombo">>

CalculatorDirective == <<"USE_TOOL:", " ", "Calculator", "\n", "INPUT:", " ", "1/0">>

SearchDirective == <<"USE_TOOL:", " ", "SearchKnowledge", "\n", "INPUT:", " ", "tea">>

UnknownDirective == <<"USE_TOOL:", " ", "Oracle", "\n", "INPUT:", " ", "q1">>

MissingInput == <<"USE_TOOL:", " ", "Calculator", "\n", "2+2">>

\* the texts the backend generates in the model
Responses ==
    {PlainAnswer, CalculatorDirective, SearchDirective, UnknownDirective, MissingInput}

\* mutant of LoopContinues: off by one
LoopContinuesOnceMore(done) == done <= DispatchCap

\* whether the for loop has an iteration left after `done` dispatches
LoopContinues(done) == done < DispatchCap

\* mutant of ExceptPc: the except branch re-raises, chat() returns nothing
ExceptPcAborted == "Aborted"

\* the position chat() is in after its except branch ran
ExceptPc == "Done"

\* MarketAgent.__init__
AgentInit ==
    /\ pc = "Idle"
    /\ user_input = <<>>
    /\ messages = <<>>
    /\ response = <<>>
    /\ iteration = 0
    /\ tool_result = <<>>
    /\ tool_raised = FALSE
    /\ returned = <<>>
    /\ failed = "no"
    /\ gen_calls = 0
    /\ tool_execs = 0
    /\ sent = <<>>
    /\ chats = 0
    /\ LLMInit

\* chat(): add the user message, read the history, enter Generating
StartChatWithin(u, limit) ==
    /\ pc \in {"Idle", "Done"}
    /\ chats < limit
    /\ chats' = chats + 1
    /\ user_input' = u
    /\ memory_messages' = MemAddUser(memory_messages, u, MemMaxLen)
    /\ added' = Append(added, Msg("user", u))
    /\ mem_op' = NoMemOp
    /\ messages' = GetMessages(system_message, memory_messages')
    /\ pc' = "Generating"
    /\ response' = <<>>
    /\ iteration' = 0
    /\ tool_result' = <<>>
    /\ tool_raised' = FALSE
    /\ returned' = <<>>
    /\ failed' = "no"
    /\ gen_calls' = 0
    /\ tool_execs' = 0
    /\ sent' = <<>>
    /\ UNCHANGED <<max_turns, system_message, vsVars, queryVars, llmVars>>

\* chat(u), for at most MaxChats invocations
StartChat(u) == StartChatWithin(u, MaxChats)

\* str(e) of the ValueError TfidfVectorizer.fit_transform raises
EmptyVocabularyMessage == <<"empty vocabulary; perhaps the documents only contain stop words">>

\* f"Sorry, I encountered an error: {str(e)}" for the error of add_documents
IndexingErrorMsg == ErrorMsg(EmptyVocabularyMessage)

\* add_documents of chat() on an agent that other sessions use as well, when another
\* session's clear_knowledge() runs self.documents = [] between the check of line 69 and
\* fit_transform(self.documents) of line 78: fit_transform raises ValueError on the empty
\* list. The vectorizer is the one assigned last, by line 73 or by line 212 of clear
RacedAddOutcomes(st) ==
    {[st |-> Store(<<>>, v, NoMatrix, StoreClear(st, unlinked).store_file),
      raised |-> TRUE, io |-> "none"] : v \in {"none", "unfitted"}, unlinked \in BOOLEAN}

\* how add_documents of chat() can end
ChatAddOutcomes(st, batch, sklearn, shared) ==
    {StoreAdd(st, batch, sklearn, io) : io \in SaveOutcomes}
        \cup (IF sklearn /\ shared > 1 THEN RacedAddOutcomes(st) ELSE {})

\* lines 161-171 of chat(), and its except branch when add_documents raises
Finish(resp) ==
    \E final_answer \in {CleanUp(resp)} :
    \E out \in ChatAddOutcomes(TheStore, <<ConversationText(user_input, final_answer)>>,
                              HAS_SKLEARN, sessions) :
       /\ SetStore(out.st)
       /\ vs_op' = [op |-> "add", raised |-> out.raised, io |-> out.io,
                    batch |-> <<ConversationText(user_input, final_answer)>>]
       /\ IF out.raised
          THEN /\ memory_messages' =
                     MemAddAssistant(MemAddAssistant(memory_messages, final_answer, MemMaxLen),
                                     IndexingErrorMsg, MemMaxLen)
               /\ added' = added \o <<Msg("assistant", final_answer),
                                      Msg("assistant", IndexingErrorMsg)>>
               /\ returned' = IndexingErrorMsg
               /\ failed' = "indexing"
               /\ pc' = ExceptPc
          ELSE /\ memory_messages' = MemAddAssistant(memory_messages, final_answer, MemMaxLen)
               /\ added' = Append(added, Msg("assistant", final_answer))
               /\ returned' = final_answer
               /\ failed' = "no"
               /\ pc' = "Done"
       /\ mem_op' = NoMemOp
       /\ UNCHANGED <<max_turns, system_message, HAS_SKLEARN, query_text, n_results,
                      similarities, top_indices, results>>

\* the lines of the generated texts whose parsing is examined: directive lines for a known
\* and an unknown tool, an input line, plain text, marker lines without a value, a marker
\* that is not at the start of its line, and text in which a marker is split by the other
ParseLines ==
    {<<"USE_TOOL:", " ", "Calculator">>, <<"USE_TOOL:", " ", "Oracle">>,
     <<"INPUT:", " ", "2+2">>, <<"Colombo">>, <<"USE_TOOL:">>, <<"INPUT:">>,
     <<"see", " ", "USE_TOOL:", " ", "Calculator">>, <<"USE_", "INPUT:", "TOOL:">>}

\* the generated texts whose parsing is examined: one line, or two lines in either order
ParseTexts == ParseLines \cup {a \o <<"\n">> \o b : a \in ParseLines, b \in ParseLines}

\* self.llm.generate(messages) returns text r
GenerateOk(r) ==
    /\ pc = "Generating"
    /\ gen_calls' = gen_calls + 1
    /\ sent' = messages
    /\ response' = r
    /\ IF LoopContinues(iteration)
       THEN /\ pc' = "Inspecting"
            /\ UNCHANGED <<memVars, vsVars, queryVars, returned, failed>>
       ELSE Finish(r)
    /\ UNCHANGED <<user_input, messages, iteration, tool_result, tool_raised, tool_execs, chats, llmVars>>

\* mutant of GenerateFail: the except branch records the failed turn in the collection
GenerateFailRecorded ==
    /\ pc = "Generating"
    /\ gen_calls' = gen_calls + 1
    /\ sent' = messages
    /\ memory_messages' = MemAddAssistant(memory_messages, ErrorMsg(LLMFailedMessage), MemMaxLen)
    /\ added' = Append(added, Msg("assistant", ErrorMsg(LLMFailedMessage)))
    /\ mem_op' = NoMemOp
    /\ returned' = ErrorMsg(LLMFailedMessage)
    /\ failed' = "generation"
    /\ pc' = ExceptPc
    /\ documents' = Append(documents, ConversationText(user_input, ErrorMsg(LLMFailedMessage)))
    /\ UNCHANGED <<max_turns, system_message, HAS_SKLEARN, vectorizer, tfidf_matrix, store_file,
                   mutation, sessions, queryVars, user_input, messages, response, iteration,
                   tool_result, tool_raised, tool_execs, chats, llmVars>>

\* self.llm.generate(messages) raises: the except branch of chat()
GenerateFail ==
    /\ pc = "Generating"
    /\ gen_calls' = gen_calls + 1
    /\ sent' = messages
    /\ memory_messages' = MemAddAssistant(memory_messages, ErrorMsg(LLMFailedMessage), MemMaxLen)
    /\ added' = Append(added, Msg("assistant", ErrorMsg(LLMFailedMessage)))
    /\ mem_op' = NoMemOp
    /\ returned' = ErrorMsg(LLMFailedMessage)
    /\ failed' = "generation"
    /\ pc' = ExceptPc
    /\ UNCHANGED <<max_turns, system_message, vsVars, queryVars, user_input, messages, response,
                   iteration, tool_result, tool_raised, tool_execs, chats, llmVars>>

\* _check_tool_use found a tool name and an input
InspectDirective ==
    /\ pc = "Inspecting"
    /\ WantsTool(response)
    /\ pc' = "Dispatching"
    /\ UNCHANGED <<memVars, vsVars, queryVars, user_input, messages, response, iteration,
                   tool_result, tool_raised, returned, failed, gen_calls, tool_execs, sent, chats, llmVars>>

\* no tool is wanted: break, and the response is the final answer
InspectFinal ==
    /\ pc = "Inspecting"
    /\ ~WantsTool(response)
    /\ Finish(response)
    /\ UNCHANGED <<user_input, messages, response, iteration, tool_result, tool_raised,
                   gen_calls, tool_execs, sent, chats, llmVars>>

\* mutant of Dispatch: the two context messages are appended to the memory's deque as well
DispatchIntoMemory ==
    /\ pc = "Dispatching"
    /\ \E call \in {CheckToolUse(response)} :
       \E out \in ExecuteTool(call[1].v, call[2].v, TheStore, HAS_SKLEARN) :
          /\ tool_result' = out.result
          /\ tool_raised' = out.raised
          /\ messages' = messages \o <<ToolMessage(call[1].v, out.result), FinalAnswerRequest>>
          /\ memory_messages' =
                memory_messages \o <<ToolMessage(call[1].v, out.result), FinalAnswerRequest>>
    /\ tool_execs' = tool_execs + 1
    /\ iteration' = iteration + 1
    /\ pc' = "Generating"
    /\ UNCHANGED <<max_turns, system_message, mem_op, added, vsVars, queryVars, user_input,
                   response, returned, failed, gen_calls, sent, chats, llmVars>>

\* _execute_tool and the two context messages
Dispatch ==
    /\ pc = "Dispatching"
    /\ \E call \in {CheckToolUse(response)} :
       \E out \in ExecuteTool(call[1].v, call[2].v, TheStore, HAS_SKLEARN) :
          /\ tool_result' = out.result
          /\ tool_raised' = out.raised
          /\ messages' = messages \o <<ToolMessage(call[1].v, out.result), FinalAnswerRequest>>
    /\ tool_execs' = tool_execs + 1
    /\ iteration' = iteration + 1
    /\ pc' = "Generating"
    /\ UNCHANGED <<memVars, vsVars, queryVars, user_input, response, returned, failed, gen_calls,
                   sent, chats, llmVars>>

\* the texts handed to add_knowledge
KnowledgeBatches == {<<d>> : d \in DocTexts}

\* MarketAgent.add_knowledge on the newly constructed agent, as load_agent calls it
AddKnowledge(batch) ==
    /\ pc = "Idle"
    /\ vs_op.op = "init"
    /\ AddDocuments(batch)
    /\ UNCHANGED <<memVars, chatVars>>

\* MarketAgent.reset
Reset ==
    /\ pc \in {"Idle", "Done"}
    /\ MemoryClear
    /\ UNCHANGED <<vsVars, queryVars, chatVars>>

---------------------------------------------------------------------------
(* Specifications *)

\* the agent: one MarketAgent and the chats and knowledge additions made on it
Init ==
    /\ MemoryInit(AgentMaxTurns)
    /\ \E file \in InitialFiles, sklearn \in BOOLEAN : StoreInit(file, sklearn)
    /\ AgentInit

ChatStep ==
    \/ \E r \in Responses : GenerateOk(r)
    \/ GenerateFail
    \/ InspectDirective
    \/ InspectFinal
    \/ Dispatch

Next ==
    \/ \E u \in Inputs : StartChat(u)
    \/ ChatStep
    \/ \E batch \in KnowledgeBatches : AddKnowledge(batch)

Spec == Init /\ [][Next]_vars

\* every started call of generate and of a tool returns or raises, so chat() keeps stepping
FairSpec == Spec /\ WF_vars(ChatStep)

\* one chat() on a newly constructed agent, the backend generating any of ParseTexts
ParseInit ==
    /\ MemoryInit(AgentMaxTurns)
    /\ \E sklearn \in BOOLEAN : StoreInit(AbsentFile, sklearn)
    /\ AgentInit

ParseNext ==
    \/ \E u \in Inputs : pc = "Idle" /\ StartChat(u)
    \/ \E r \in ParseTexts : GenerateOk(r)
    \/ GenerateFail
    \/ InspectDirective
    \/ InspectFinal
    \/ Dispatch

ParseSpec == ParseInit /\ [][ParseNext]_vars

\* the inputs given to the calculator and to the page-fetch tool
ToolInputs == {<<"2+2">>, <<"1/0">>, <<"2+">>, <<"https://", "cse.lk">>, <<"cse.lk">>}

\* the directives that reach the two tools, and a plain answer
ToolTexts ==
    {<<"USE_TOOL:", " ", t, "\n", "INPUT:", " ">> \o i :
        t \in {"Calculator", "WebScraper"}, i \in ToolInputs} \cup {PlainAnswer}

\* one chat on a new agent whose generated texts call the calculator and the page-fetch tool
ToolInit ==
    /\ MemoryInit(AgentMaxTurns)
    /\ \E sklearn \in BOOLEAN : StoreInit(AbsentFile, sklearn)
    /\ AgentInit

ToolNext ==
    \/ \E u \in Inputs : pc = "Idle" /\ StartChat(u)
    \/ \E r \in ToolTexts : GenerateOk(r)
    \/ GenerateFail
    \/ InspectDirective
    \/ InspectFinal
    \/ Dispatch

ToolSpec == ToolInit /\ [][ToolNext]_vars

\* the largest number of consecutive turns examined
MaxTurns == 2

\* consecutive chats on one agent
TurnsInit ==
    /\ MemoryInit(AgentMaxTurns)
    /\ \E sklearn \in BOOLEAN : StoreInit(AbsentFile, sklearn)
    /\ AgentInit

TurnsNext ==
    \/ \E u \in Inputs : StartChatWithin(u, MaxTurns)
    \/ \E r \in Responses : GenerateOk(r)
    \/ GenerateFail
    \/ InspectDirective
    \/ InspectFinal
    \/ Dispatch

TurnsSpec == TurnsInit /\ [][TurnsNext]_vars

\* directive lines: two tool names, two inputs, and markers with nothing but blanks after
DirectiveLines ==
    {<<"USE_TOOL:", " ", "Calculator">>, <<"USE_TOOL:", " ", "Oracle">>, <<"USE_TOOL:", " ">>,
     <<"INPUT:", " ", "2+2">>, <<"INPUT:", " ", "1/0">>, <<"INPUT:", " ">>}

\* a text with two USE_TOOL: lines and two INPUT: lines
FourLines ==
    <<"USE_TOOL:", " ", "Oracle", "\n", "INPUT:", " ", "2+2", "\n",
      "USE_TOOL:", " ", "Calculator", "\n", "INPUT:", " ", "1/0">>

\* the generated texts with up to three directive lines, and the one with four
DirectiveTexts ==
    DirectiveLines
        \cup {a \o <<"\n">> \o b : a \in DirectiveLines, b \in DirectiveLines}
        \cup {a \o <<"\n">> \o b \o <<"\n">> \o c :
                a \in DirectiveLines, b \in DirectiveLines, c \in DirectiveLines}
        \cup {FourLines}

\* one chat on a new agent whose generated texts repeat the directive lines
DirectiveInit ==
    /\ MemoryInit(AgentMaxTurns)
    /\ \E sklearn \in BOOLEAN : StoreInit(AbsentFile, sklearn)
    /\ AgentInit

DirectiveNext ==
    \/ \E u \in Inputs : pc = "Idle" /\ StartChat(u)
    \/ \E r \in DirectiveTexts : GenerateOk(r)
    \/ GenerateFail
    \/ InspectDirective
    \/ InspectFinal
    \/ Dispatch

DirectiveSpec == DirectiveInit /\ [][DirectiveNext]_vars

\* two documents with punctuation and short words, and queries on them
ExampleDocs ==
    <<<<"Tea", " ", "is", " ", "Sri", " ", "Lanka's", " ", "largest", " ", "export.">>,
      <<"Colombo", " ", "is", " ", "the", " ", "commercial", " ", "capital.">>>>

ExampleBatches == {<<>>, <<ExampleDocs[1]>>, <<ExampleDocs[2]>>, ExampleDocs}

ExampleQueries == {<<"export", " ", "tea">>, <<"Colombo">>, <<"is">>}

\* a new VectorStore, the example documents added to it and queried
ScoreInit ==
    /\ MemoryInit(AgentMaxTurns)
    /\ \E sklearn \in BOOLEAN : StoreInit(AbsentFile, sklearn)
    /\ AgentInit

ScoreNext ==
    \/ \E batch \in ExampleBatches : AddDocuments(batch) /\ UNCHANGED <<memVars, chatVars>>
    \/ \E q \in ExampleQueries, n \in 1..MaxLimit :
          Query(q, n) /\ UNCHANGED <<memVars, chatVars>>
    \/ Clear /\ UNCHANGED <<memVars, chatVars>>

ScoreSpec == ScoreInit /\ [][ScoreNext]_vars

\* the sessions that use the agent load_agent() of web_app.py caches
Sessions == 2

\* one VectorStore shared by threads: a mutation runs statement by statement and query()
\* calls of other threads run between its statements
SharedInit ==
    /\ MemoryInit(AgentMaxTurns)
    /\ \E sklearn \in BOOLEAN : StoreInitShared(AbsentFile, sklearn, Sessions)
    /\ AgentInit

SharedNext ==
    \/ \E batch \in Batches : ExtendStep(batch) /\ UNCHANGED <<memVars, chatVars>>
    \/ VectorizerStep /\ UNCHANGED <<memVars, chatVars>>
    \/ FitStep /\ UNCHANGED <<memVars, chatVars>>
    \/ MatrixStep /\ UNCHANGED <<memVars, chatVars>>
    \/ SaveStep /\ UNCHANGED <<memVars, chatVars>>
    \/ ClearDocumentsStep /\ UNCHANGED <<memVars, chatVars>>
    \/ ClearIndexStep /\ UNCHANGED <<memVars, chatVars>>
    \/ \E q \in QueryTexts, n \in 1..MaxLimit : Query(q, n) /\ UNCHANGED <<memVars, chatVars>>

SharedSpec == SharedInit /\ [][SharedNext]_vars

\* a new MarketAgent, messages added to its memory directly, and resets
ResetInit ==
    /\ MemoryInit(AgentMaxTurns)
    /\ \E sklearn \in BOOLEAN : StoreInit(AbsentFile, sklearn)
    /\ AgentInit

ResetNext ==
    \/ \E c \in Contents : AddUserMessage(c) /\ UNCHANGED <<vsVars, queryVars, chatVars>>
    \/ \E c \in Contents : AddAssistantMessage(c) /\ UNCHANGED <<vsVars, queryVars, chatVars>>
    \/ Reset

ResetSpec == ResetInit /\ [][ResetNext]_vars

\* the agent web_app.py caches for all sessions: the chats of one session, and the other
\* session's Clear Knowledge button
CachedInit ==
    /\ MemoryInit(AgentMaxTurns)
    /\ \E file \in InitialFiles, sklearn \in BOOLEAN : StoreInitShared(file, sklearn, Sessions)
    /\ AgentInit

CachedNext ==
    \/ \E u \in Inputs : StartChat(u)
    \/ ChatStep
    \/ Clear /\ UNCHANGED <<memVars, chatVars>>

CachedSpec == CachedInit /\ [][CachedNext]_vars

\* a GroqLLM and the generate calls made on it
LLMSpecInit ==
    /\ MemoryInit(AgentMaxTurns)
    /\ StoreInit(AbsentFile, FALSE)
    /\ AgentInit

LLMNext ==
    \/ \E n \in 0..MaxRetries : Generate(n) /\ UNCHANGED <<memVars, vsVars, queryVars>>
                                             /\ UNCHANGED <<pc, user_input, messages, response,
                                                            iteration, tool_result, tool_raised,
                                                            returned, failed, gen_calls,
                                                            tool_execs, sent, chats>>
    \/ \E text \in Responses : RequestOk(text) /\ UNCHANGED <<memVars, vsVars, queryVars>>
                                                /\ UNCHANGED <<pc, user_input, messages, response,
                                                               iteration, tool_result, tool_raised,
                                                               returned, failed, gen_calls,
                                                               tool_execs, sent, chats>>
    \/ RequestFail /\ UNCHANGED <<memVars, vsVars, queryVars>>
                   /\ UNCHANGED <<pc, user_input, messages, response, iteration, tool_result,
                                  tool_raised, returned, failed, gen_calls, tool_execs, sent,
                                  chats>>

LLMSpec == LLMSpecInit /\ [][LLMNext]_vars

\* a ConversationMemory of any size and the calls made on it
MemInit ==
    /\ \E T \in 0..MaxT : MemoryInit(T)
    /\ StoreInit(AbsentFile, FALSE)
    /\ AgentInit

MemNext ==
    \/ \E c \in Contents : AddUserMessage(c) /\ UNCHANGED <<vsVars, queryVars, chatVars>>
    \/ \E c \in Contents : AddAssistantMessage(c) /\ UNCHANGED <<vsVars, queryVars, chatVars>>
    \/ \E c \in SystemContents : AddSystemMessage(c) /\ UNCHANGED <<vsVars, queryVars, chatVars>>
    \/ MemoryClear /\ UNCHANGED <<vsVars, queryVars, chatVars>>

MemSpec == MemInit /\ [][MemNext]_vars

\* a VectorStore and the calls made on it, across reconstructions on the same path
StoreInitial ==
    /\ MemoryInit(AgentMaxTurns)
    /\ \E file \in InitialFiles, sklearn \in BOOLEAN : StoreInit(file, sklearn)
    /\ AgentInit

StoreNext ==
    \/ \E batch \in Batches : AddDocuments(batch) /\ UNCHANGED <<memVars, chatVars>>
    \/ \E q \in QueryTexts, n \in 1..MaxLimit : Query(q, n) /\ UNCHANGED <<memVars, chatVars>>
    \/ Clear /\ UNCHANGED <<memVars, chatVars>>
    \/ Reconstruct /\ UNCHANGED <<memVars, chatVars>>
    \/ \E batch \in Batches, point \in CrashPoints :
          CrashInSave(batch, point) /\ UNCHANGED <<memVars, chatVars>>

StoreSpec == StoreInitial /\ [][StoreNext]_vars

---------------------------------------------------------------------------
(* Claims about the dispatch loop, checked under Spec and FairSpec *)

Active == {"Generating", "Inspecting", "Dispatching"}

\* C1: for every sequence of backend outputs, also one that requests a tool in every
\* response, one chat invocation issues at most 4 generation calls (1 initial plus at most
\* 3 follow-ups).
C1_AtMostFourGenerationCalls == gen_calls <= 4

\* an invocation whose every response asked for a tool has returned after 4 calls
C1_Witness == pc = "Done" /\ gen_calls = 4 /\ WantsTool(response)

\* the steps chat() may take between its positions; Idle and Done lead to Generating when a
\* new invocation starts
ChatEdges ==
    {<<"Idle", "Generating">>, <<"Done", "Generating">>, <<"Generating", "Inspecting">>,
     <<"Inspecting", "Dispatching">>, <<"Dispatching", "Generating">>,
     <<"Inspecting", "Done">>, <<"Generating", "Done">>}

\* C2: every chat invocation eventually reaches Done and has returned a string, whatever the
\* backend generates and whether its calls and the tool calls return or raise; it moves only
\* along Generating -> Inspecting -> (Dispatching -> Generating -> Inspecting)* -> Done, the
\* generation that follows the last allowed dispatch going to Done directly, as does a
\* generation that raises.
C2_ChatTerminates ==
    /\ [](pc \in Active => <>(pc = "Done"))
    /\ [](pc = "Done" => returned \in Seq(STRING))
    /\ [][pc' # pc => <<pc, pc'>> \in ChatEdges]_vars

\* an invocation that dispatched three tools has returned its answer
C2_Witness == pc = "Done" /\ iteration = 3 /\ failed = "no" /\ returned # <<>>

\* C3: one chat invocation executes at most 3 tools; when the text generated after the third
\* dispatch still holds a recognized directive, that text (cleaned up) is the final answer
\* and no fourth tool is executed.
C3_AtMostThreeToolExecutions ==
    /\ tool_execs <= 3
    /\ (tool_execs = 3 /\ gen_calls = 4 /\ failed = "no") =>
          /\ pc = "Done"
          /\ returned = CleanUp(response)
          /\ memory_messages[Len(memory_messages)] = Msg("assistant", CleanUp(response))

\* the fourth response still asks for a tool and has been accepted as the answer
C3_Witness ==
    /\ pc = "Done"
    /\ tool_execs = 3
    /\ WantsTool(response)
    /\ returned = CleanUp(response)
    /\ failed = "no"

\* C4: when a dispatched tool raises, _execute_tool yields "Tool error: <message>", that text
\* is in the assistant message handed to the next generation call, and the invocation goes on
\* to Done with the cleaned-up answer of the backend instead of aborting.
C4_ToolFaultIsFolded ==
    tool_raised =>
        /\ tool_result = <<"Tool error:", " ", "The TF-IDF vectorizer is not fitted">>
        /\ pc \in Active \cup {"Done"}
        /\ Len(messages) >= 2
        /\ messages[Len(messages) - 1] =
              Msg("assistant", <<"I used", " ", "SearchKnowledge", " ", "and got:", " ">>
                                  \o tool_result)
        /\ messages[Len(messages)] = FinalAnswerRequest
        /\ (pc # "Generating" => sent = messages)
        /\ failed \in {"no", "generation"}
        /\ (pc = "Done" /\ failed = "no" => returned = CleanUp(response))

\* the search tool raised and the invocation still returned the backend's plain answer
C4_Witness ==
    /\ tool_raised
    /\ pc = "Done"
    /\ failed = "no"
    /\ returned = PlainAnswer

\* C5 as stated: after a generation call failed, the memory holds the failed turn's user
\* message and no assistant message was appended for that turn.
C5_NoAssistantMessageAfterFailure ==
    (pc = "Done" /\ failed = "generation") =>
        memory_messages[Len(memory_messages)] = Msg("user", user_input)

\* C5 amended: after a generation call failed, the memory holds the failed turn's user message
\* followed by exactly one assistant message, which holds the error string chat() returned.
C5_ErrorStringIsStored ==
    (pc = "Done" /\ failed = "generation") =>
        LET n == Len(memory_messages)
        IN /\ n >= 2
           /\ memory_messages[n - 1] = Msg("user", user_input)
           /\ memory_messages[n] =
                 Msg("assistant",
                     <<"Sorry, I encountered an error:", " ",
                       "LLM failed after 3 attempts:", " ", "Connection error.">>)
           /\ returned = memory_messages[n].content
           /\ Len(added) = n

\* a follow-up generation call failed after a tool had been dispatched
C5_Witness == pc = "Done" /\ failed = "generation" /\ tool_execs >= 1

---------------------------------------------------------------------------
(* Claims about the conversation memory, checked under MemSpec *)

\* the rolling window: get_messages() without the pinned message
RollingWindow == SelectSeq(GetMessages(system_message, memory_messages),
                           LAMBDA m : m.role # "system")

\* C6: with max_turns = T, after any user/assistant adds and clears the rolling window is
\* the last min(n, 2T) of the n messages added since the last clear, in their order; its
\* length never exceeds 2T and is 2T once more than 2T messages were added.
C6_WindowIsLatestMessages ==
    LET n == Len(added)
        k == Min(n, 2 * max_turns)
    IN /\ RollingWindow = SubSeq(added, n - k + 1, n)
       /\ Len(RollingWindow) <= 2 * max_turns
       /\ (n > 2 * max_turns => Len(RollingWindow) = 2 * max_turns)

\* max_turns = 1; user A, assistant B, user C, assistant D leave [user C, assistant D]
C6_Witness ==
    /\ max_turns = 1
    /\ added = <<Msg("user", <<"A">>), Msg("assistant", <<"B">>),
                 Msg("user", <<"C">>), Msg("assistant", <<"D">>)>>
    /\ GetMessages(system_message, memory_messages) =
          <<Msg("user", <<"C">>), Msg("assistant", <<"D">>)>>

\* the number of system-role messages get_messages() returns
SystemCount(sys, dq) ==
    Len(SelectSeq(GetMessages(sys, dq), LAMBDA m : m.role = "system"))

\* C7: once a system message is set it is the first element of get_messages() in every
\* later state, whatever is appended and evicted, until clear() or another
\* add_system_message; get_messages() never holds more than one system-role message.
C7_PinnedMessageStaysFirst ==
    /\ [](SystemCount(system_message, memory_messages) <= 1)
    /\ [](system_message.has =>
            Head(GetMessages(system_message, memory_messages)) = system_message.msg)
    /\ [][(/\ system_message.has
           /\ ~MemoryClear
           /\ ~\E c \in SystemContents : AddSystemMessage(c))
          => Head(GetMessages(system_message', memory_messages')) = system_message.msg]_vars

\* a pinned message is still first after the window evicted messages
C7_Witness ==
    /\ system_message.has
    /\ max_turns >= 1
    /\ Len(added) > 2 * max_turns
    /\ Len(memory_messages) = 2 * max_turns
    /\ Head(GetMessages(system_message, memory_messages)) = system_message.msg

---------------------------------------------------------------------------
(* Claims about the vector store, checked under StoreSpec *)

\* a call of query has returned its result list
QueryReturned == vs_op.op = "query" /\ ~vs_op.raised

C9_EarlierDocumentWinsTies ==
    QueryReturned =>
        /\ \A i \in 1..Len(top_indices), j \in 1..Len(top_indices) :
              (i < j /\ ScoreEq(similarities[top_indices[i]], similarities[top_indices[j]]))
                 => top_indices[i] < top_indices[j]
        /\ \A i \in 1..Len(top_indices), d \in 1..Len(documents) :
              (/\ \A j \in 1..Len(top_indices) : top_indices[j] # d
               /\ ScoreEq(similarities[d], similarities[top_indices[i]]))
                 => top_indices[i] < d

C11_CrashKeepsSnapshot ==
    [][(vs_op'.op = "crash" /\ store_file = PickleFile(documents))
          => documents' \in {documents, documents \o vs_op'.batch}]_vars

---------------------------------------------------------------------------
(* Claims about the end of a turn, checked under Spec *)

\* a step in which chat() returns its final answer
ReturnsAnswer == pc # "Done" /\ pc' = "Done" /\ failed' = "no"

\* the values a returning chat() has left behind: the answer is the cleaned-up response, the
\* last memory message is assistant:answer, the collection grew by the one episode record
AnswerStored ==
    /\ returned' = CleanUp(response')
    /\ memory_messages'[Len(memory_messages')] = Msg("assistant", returned')
    /\ documents' = Append(documents, <<"User asked:", " ">> \o user_input' \o
                                        <<"\n", "Agent answered:", " ">> \o returned')

\* C12 as stated: when chat(u) ends with the sanitized text f, the last memory message is
\* assistant:f, exactly one document "User asked: u\nAgent answered: f" was appended as the
\* last document and is persisted, and f is returned.
C12_AnswerStoredAndPersisted ==
    [][ReturnsAnswer =>
          /\ AnswerStored
          /\ StoreConstruct(store_file', HAS_SKLEARN).documents = documents']_vars

\* C12 amended: the same, the record being persisted when the snapshot write of that
\* add_documents call succeeded.
C12_AnswerStoredAndSaved ==
    [][ReturnsAnswer =>
          /\ AnswerStored
          /\ vs_op'.op = "add"
          /\ (vs_op'.io = "ok" =>
                 StoreConstruct(store_file', HAS_SKLEARN).documents = documents')]_vars

\* a chat on a store with one knowledge document has returned; record stored and saved
C12_Witness ==
    /\ pc = "Done"
    /\ failed = "no"
    /\ vs_op.io = "ok"
    /\ Len(documents) = 2
    /\ documents[2] = <<"User asked:", " ", "q1", "\n", "Agent answered:", " ">> \o returned
    /\ memory_messages[Len(memory_messages)] = Msg("assistant", returned)
    /\ store_file = PickleFile(documents)

---------------------------------------------------------------------------
(* Claims about directive parsing, checked under ParseSpec *)

\* C13 as stated: for every text the backend generates, the final text chat() returns and
\* stores in memory holds no occurrence of "USE_TOOL:" or of "INPUT:".
C13_NoMarkerInFinalText ==
    (pc = "Done" /\ failed = "no") =>
        /\ ~Contains(returned, "USE_TOOL:")
        /\ ~Contains(returned, "INPUT:")
        /\ memory_messages[Len(memory_messages)] = Msg("assistant", returned)

\* the text has a line that begins with the marker
HasLine(resp, marker) == \E k \in 1..Len(Lines(resp)) : StartsWith(Lines(resp)[k], marker)

\* the response being inspected has a USE_TOOL: line and no INPUT: line
MissingInputLine ==
    pc = "Inspecting" /\ HasLine(response, "USE_TOOL:") /\ ~HasLine(response, "INPUT:")

\* C14 as stated: a response with a USE_TOOL: line and no INPUT: line causes no dispatch and
\* no further generation call, and is the final answer verbatim.
C14_MissingInputIsFinalVerbatim ==
    [][MissingInputLine =>
          /\ pc' = "Done"
          /\ tool_execs' = tool_execs
          /\ gen_calls' = gen_calls
          /\ returned' = response]_vars

\* C14 amended: such a response causes no dispatch and no further generation call, and is
\* the final answer after the clean-up of line 162: both markers removed, the rest stripped.
C14_MissingInputIsFinal ==
    [][MissingInputLine =>
          /\ pc' = "Done"
          /\ failed' = "no"
          /\ tool_execs' = tool_execs
          /\ gen_calls' = gen_calls
          /\ returned' = CleanUp(response)
          /\ memory_messages'[Len(memory_messages')] = Msg("assistant", returned')]_vars

\* "USE_TOOL: Calculator" alone ended the turn after one generation call and no dispatch
C14_Witness ==
    /\ pc = "Done"
    /\ response = <<"USE_TOOL:", " ", "Calculator">>
    /\ gen_calls = 1
    /\ tool_execs = 0
    /\ returned = <<"Calculator">>

\* C15 as stated: a tool is dispatched only when the generated text has a USE_TOOL: line
\* followed on a later line by an INPUT: line; text whose INPUT: line comes before its
\* USE_TOOL: line, or that lacks either marker, dispatches no tool.
C15_DispatchNeedsToolThenInput ==
    pc = "Dispatching" =>
        \E i \in 1..Len(Lines(response)), j \in 1..Len(Lines(response)) :
           /\ i < j
           /\ StartsWith(Lines(response)[i], "USE_TOOL:")
           /\ StartsWith(Lines(response)[j], "INPUT:")

\* the response holds a directive, with an input, for a tool outside the three known ones
NamesUnknownTool(resp) ==
    /\ Truthy(CheckToolUse(resp)[1])
    /\ Truthy(CheckToolUse(resp)[2])
    /\ Lower(CheckToolUse(resp)[1].v) \notin KnownTools

\* C16 as stated: when the directive names a tool outside the three recognized tools, the
\* response is final: the loop goes from Inspecting to Done with no dispatch and no further
\* generation call.
C16_UnknownToolIsFinal ==
    [][(pc = "Inspecting" /\ NamesUnknownTool(response)) =>
          /\ pc' = "Done"
          /\ tool_execs' = tool_execs
          /\ gen_calls' = gen_calls]_vars

\* C16 amended: such a directive is dispatched like any other: the loop goes from Inspecting
\* to Dispatching, _execute_tool runs once, its result is appended for the backend and the
\* loop goes on to Generating for a follow-up generation call.
C16_UnknownToolIsDispatched ==
    /\ [][(pc = "Inspecting" /\ NamesUnknownTool(response)) =>
             /\ pc' = "Dispatching"
             /\ returned' = <<>>]_vars
    /\ [][(pc = "Dispatching" /\ NamesUnknownTool(response)) =>
             /\ pc' = "Generating"
             /\ tool_execs' = tool_execs + 1
             /\ Len(messages') = Len(messages) + 2
             /\ messages'[Len(messages')] = FinalAnswerRequest]_vars

\* the directive for the tool Oracle was dispatched and a second generation call was made
C16_Witness ==
    /\ pc = "Done"
    /\ failed = "no"
    /\ tool_execs = 1
    /\ gen_calls = 2
    /\ sent[2] = Msg("assistant", <<"I used", " ", "Oracle", " ", "and got:", " ",
                                    "Unknown tool:", " ", "Oracle">>)

\* C17: _execute_tool with a name that, lower-cased, is none of calculator, webscraper and
\* searchknowledge returns "Unknown tool: <name>" as an ordinary result and raises nothing;
\* a known name never gets that text.
C17_UnknownToolYieldsText ==
    (pc = "Generating" /\ iteration >= 1) =>
        LET tool_name == CheckToolUse(response)[1].v
        IN IF Lower(tool_name) \in KnownTools
           THEN ~StartsWith(tool_result, "Unknown tool:")
           ELSE /\ tool_result = <<"Unknown tool:", " ">> \o tool_name
                /\ ~tool_raised

\* _execute_tool has just returned for the tool name Oracle
C17_Witness ==
    /\ pc = "Generating"
    /\ iteration = 1
    /\ CheckToolUse(response)[1].v = <<"Oracle">>
    /\ tool_result = <<"Unknown tool:", " ", "Oracle">>
    /\ ~tool_raised

---------------------------------------------------------------------------
(* Claims about failures and scoring *)

\* C18: a failure of any generation call of a turn, the first or a follow-up, is neither
\* swallowed nor raised out of chat(): chat() ends and returns an error string that
\* describes the failure.
C18_GenerationFailureIsReturned ==
    /\ pc \in {"Idle", "Generating", "Inspecting", "Dispatching", "Done"}
    /\ failed = "generation" =>
          /\ pc = "Done"
          /\ gen_calls \in 1..4
          /\ returned = <<"Sorry, I encountered an error:", " ",
                          "LLM failed after 3 attempts:", " ", "Connection error.">>
    /\ (pc = "Done" /\ failed = "no") => returned = CleanUp(response)

\* the last follow-up generation call, after three dispatches, failed
C18_Witness ==
    /\ pc = "Done"
    /\ failed = "generation"
    /\ gen_calls = 4
    /\ tool_execs = 3
    /\ StartsWith(returned, "Sorry, I encountered an error:")

\* the tokens the claimed tokenization makes of one whitespace-separated word: lower case,
\* characters that are not alphanumeric split the word, pieces of length <= 2 are dropped
ClaimedTokensOfWord(w) ==
    CASE w = <<"Tea">> -> {"tea"}
      [] w = <<"tea">> -> {"tea"}
      [] w = <<"is">> -> {}
      [] w = <<"Sri">> -> {"sri"}
      [] w = <<"Lanka's">> -> {"lanka"}
      [] w = <<"largest">> -> {"largest"}
      [] w = <<"export.">> -> {"export"}
      [] w = <<"export">> -> {"export"}
      [] w = <<"Colombo">> -> {"colombo"}
      [] w = <<"the">> -> {"the"}
      [] w = <<"commercial">> -> {"commercial"}
      [] w = <<"capital.">> -> {"capital"}
      [] OTHER -> {}

ClaimedTokens(s) == UNION {ClaimedTokensOfWord(w) : w \in Words(s)}

\* the claimed score: |tokens(q) \cap tokens(d)| / max(|tokens(q)|, 1)
ClaimedScore(q, d) ==
    <<Cardinality(ClaimedTokens(q) \cap ClaimedTokens(d)),
      Max(Cardinality(ClaimedTokens(q)), 1)>>

\* C19 as stated: under the default (keyword) strategy every returned score is the claimed
\* score of its document; hence with the two example documents indexed, the query
\* "export tea" with limit 1 returns the first document with score 1.0.
C19_ScoreOverClaimedTokens ==
    (QueryReturned /\ ~HAS_SKLEARN) =>
        /\ \A i \in 1..Len(results) :
              ScoreEq(results[i].score, ClaimedScore(query_text, results[i].text))
        /\ (documents = ExampleDocs /\ query_text = <<"export", " ", "tea">> /\ n_results = 1)
              => /\ Len(results) = 1
                 /\ results[1].text = ExampleDocs[1]
                 /\ ScoreEq(results[1].score, <<1, 1>>)

\* C20: add_documents([]) is a no-op in every state: the collection and its size, the
\* vectorizer and the matrix, and the snapshot file, present or absent, are unchanged.
C20_EmptyAddChangesNothing ==
    [][(vs_op'.op = "add" /\ vs_op'.batch = <<>>) =>
          /\ documents' = documents
          /\ Len(documents') = Len(documents)
          /\ vectorizer' = vectorizer
          /\ tfidf_matrix' = tfidf_matrix
          /\ store_file' = store_file
          /\ ~vs_op'.raised]_vars

\* add_documents([]) has returned on a store with a fitted index and a written snapshot
C20_Witness ==
    /\ vs_op.op = "add"
    /\ vs_op.batch = <<>>
    /\ HAS_SKLEARN
    /\ vectorizer = "fitted"
    /\ Len(documents) >= 1
    /\ store_file = PickleFile(documents)

---------------------------------------------------------------------------
(* Claims about construction, clearing and the tools *)

\* a VectorStore has just been constructed on its path
Constructed == vs_op.op \in {"init", "construct"}

\* C21: constructing a VectorStore whose snapshot file is missing or fails to parse raises
\* nothing and yields an empty collection, count() = 0.
C21_BadSnapshotLoadsEmpty ==
    (Constructed /\ store_file.state \in {"absent", "corrupt"}) =>
        /\ ~vs_op.raised
        /\ documents = <<>>
        /\ Len(documents) = 0

\* a store was constructed again on a snapshot that a failed write had left unparsable
C21_Witness ==
    /\ vs_op.op = "construct"
    /\ store_file = CorruptFile
    /\ documents = <<>>
    /\ ~vs_op.raised

\* C22 as stated: add_documents and clear are serialized with the query calls of other
\* threads on the same instance: no query runs on an intermediate state of a mutation, such
\* as the documents extended or emptied while the index still describes the old collection.
C22_QuerySeesNoIntermediateState ==
    vs_op.op = "query" =>
        /\ mutation = "idle"
        /\ (HAS_SKLEARN /\ vectorizer = "fitted") => tfidf_matrix.docs = documents

---------------------------------------------------------------------------
(* Claims about the tools, the pinned message and clearing *)

\* the tool and the input of the directive in `response`
Directive == CheckToolUse(response)

\* a dispatch of the calculator or of the page-fetch tool has just been made
ToolDispatched ==
    /\ pc = "Generating"
    /\ iteration >= 1
    /\ Lower(Directive[1].v) \in {<<"calculator">>, <<"webscraper">>}

\* the tool call of the directive cannot have succeeded
ToolCallFails ==
    \/ Lower(Directive[1].v) = <<"calculator">> /\ Directive[2].v # <<"2+2">>
    \/ Lower(Directive[1].v) = <<"webscraper">> /\ ~StartsWith(Directive[2].v, "https://")

\* C23: the calculator and the page-fetch tool never raise: for every input they return a
\* string, and every failure is a string that starts with "Error:". The calculator on "1/0"
\* returns such a string, and after a directive that string is part of the messages of the
\* next generation call; the turn is not aborted.
C23_ToolsReturnErrorStrings ==
    /\ ToolDispatched =>
          /\ ~tool_raised
          /\ failed = "no"
          /\ \/ StartsWith(tool_result, "Error:")
             \/ StartsWith(tool_result, "Result:")
             \/ StartsWith(tool_result, "Title:")
          /\ ToolCallFails => StartsWith(tool_result, "Error:")
          /\ (Lower(Directive[1].v) = <<"calculator">> /\ Directive[2].v = <<"1/0">>) =>
                tool_result = <<"Error:", " ", "Division by zero">>
          /\ SubSeq(messages, Len(messages) - 1, Len(messages)) =
                <<ToolMessage(Directive[1].v, tool_result), FinalAnswerRequest>>
    /\ (gen_calls >= 2 /\ pc # "Generating" /\ tool_result # <<>>) =>
          /\ Len(sent) >= 3
          /\ \E t \in {"Calculator", "WebScraper"} :
                sent[Len(sent) - 1] = ToolMessage(<<t>>, tool_result)
          /\ sent[Len(sent)] = FinalAnswerRequest

\* the calculator was reached with "1/0" and the next generation call was made with its answer
C23_Witness ==
    /\ pc = "Inspecting"
    /\ gen_calls = 2
    /\ tool_result = <<"Error:", " ", "Division by zero">>
    /\ sent[Len(sent) - 1] = ToolMessage(<<"Calculator">>, tool_result)
    /\ failed = "no"

\* C24: add_system_message(c) replaces the pinned message by c; the previous pinned message
\* is discarded and does not enter the rolling window; the window keeps its contents and
\* order and nothing is evicted, also when it already holds 2 x max_turns entries.
C24_SystemAddLeavesWindow ==
    mem_op.op = "system" =>
        /\ system_message.has
        /\ system_message.msg.role = "system"
        /\ system_message.msg.content \in SystemContents
        /\ memory_messages = mem_op.messages
        /\ RollingWindow = mem_op.messages
        /\ GetMessages(system_message, memory_messages) =
              <<system_message.msg>> \o mem_op.messages
        /\ SystemCount(system_message, memory_messages) = 1

\* a pinned message was replaced by another one while the window was full
C24_Witness ==
    /\ mem_op.op = "system"
    /\ mem_op.system_message.has
    /\ mem_op.system_message.msg # system_message.msg
    /\ max_turns >= 1
    /\ Len(mem_op.messages) = 2 * max_turns
    /\ Len(memory_messages) = 2 * max_turns

\* C25 as stated: clear() never raises, leaves the collection empty and deletes the
\* snapshot, so that a store constructed afterwards on the same path is empty.
C25_ClearedStoreRestartsEmpty ==
    vs_op.op = "clear" =>
        /\ ~vs_op.raised
        /\ documents = <<>>
        /\ StoreConstruct(store_file, HAS_SKLEARN).documents = <<>>

\* C25, amended: clear() never raises and leaves the collection empty: count() is 0 and
\* every query returns the empty list. It deletes the snapshot if present; when the deletion
\* succeeds a store constructed afterwards on the same path is empty; a failure to delete is
\* swallowed and leaves the snapshot in place.
C25_ClearedStoreRestartsEmptyIfUnlinked ==
    vs_op.op = "clear" =>
        /\ ~vs_op.raised
        /\ documents = <<>>
        /\ Len(documents) = 0
        /\ \A q \in QueryTexts, n \in 1..MaxLimit :
              QueryOutcomes(TheStore, q, n, HAS_SKLEARN) = {NoQuery}
        /\ vs_op.io # "refused" =>
              /\ store_file = AbsentFile
              /\ StoreConstruct(store_file, HAS_SKLEARN).documents = <<>>
        /\ vs_op.io = "refused" => store_file.state # "absent"

\* clear() deleted a snapshot that was present
C25_Witness ==
    /\ vs_op.op = "clear"
    /\ vs_op.io = "ok"
    /\ store_file = AbsentFile
    /\ documents = <<>>
    /\ StoreConstruct(store_file, HAS_SKLEARN).documents = <<>>

\* C26: clear() on the memory empties the rolling window and removes the pinned message:
\* right after it get_messages() returns the empty list and get_summary() returns
\* "No conversation history".
C26_ClearEmptiesMemory ==
    mem_op.op = "clear" =>
        /\ memory_messages = <<>>
        /\ ~system_message.has
        /\ GetMessages(system_message, memory_messages) = <<>>
        /\ GetSummary(system_message, memory_messages) = <<"No conversation history">>

\* a memory with a pinned message and a non-empty window was cleared
C26_Witness ==
    /\ mem_op.op = "clear"
    /\ mem_op.system_message.has
    /\ mem_op.messages # <<>>
    /\ GetSummary(mem_op.system_message, mem_op.messages) # <<"No conversation history">>
    /\ GetMessages(system_message, memory_messages) = <<>>

\* C27 as stated: the agent's memory always holds its system message: get_messages() of a
\* new agent to which one user message was added has more than one message, and after
\* reset() get_messages() returns exactly one message, whose role is system.
C27_MemoryHoldsSystemMessage ==
    LET held == GetMessages(system_message, memory_messages)
    IN /\ SystemCount(system_message, memory_messages) = 1
       /\ (mem_op.op = "none" /\ Len(added) = 1) => Len(held) > 1
       /\ mem_op.op = "clear" => (Len(held) = 1 /\ held[1].role = "system")

---------------------------------------------------------------------------
(* Claims about the messages of a turn *)

\* whether m is one of the two messages chat() builds after a tool call
Synthetic(m) ==
    \/ m = FinalAnswerRequest
    \/ m.role = "assistant" /\ StartsWith(m.content, "I used")

SyntheticCount(msgs) == Len(SelectSeq(msgs, Synthetic))

\* C28: every tool dispatch is followed by exactly one generation call, whose messages are
\* those of the preceding generation call extended by two messages: an assistant message
\* that states the tool name and the tool result, then a user message that asks for the
\* final answer. The k-th generation call of a turn carries 2(k-1) such messages.
C28_EachDispatchExtendsTheNextCall ==
    /\ [](gen_calls = tool_execs + (IF pc \in {"Idle", "Generating"} THEN 0 ELSE 1))
    /\ [][pc = "Generating" => gen_calls' = gen_calls + 1]_vars
    /\ [][(gen_calls >= 1 /\ gen_calls' = gen_calls + 1) =>
            sent' = sent \o
                <<[role |-> "assistant",
                   content |-> <<"I used", " ">> \o CheckToolUse(response)[1].v
                                 \o <<" ", "and got:", " ">> \o tool_result],
                  [role |-> "user",
                   content |-> <<"Now provide the final answer based on the tool result.">>]>>]_vars
    /\ [](gen_calls >= 1 => SyntheticCount(sent) = 2 * (gen_calls - 1))

\* the fourth generation call of a turn was made, with six synthetic messages
C28_Witness ==
    /\ gen_calls = 4
    /\ tool_execs = 3
    /\ SyntheticCount(sent) = 6
    /\ Len(sent) = 7
    /\ sent[7] = FinalAnswerRequest

\* C29: the synthetic messages built after tool calls never enter the conversation memory:
\* a chat that reaches Done has added exactly two messages to the rolling window, the user
\* input and then the assistant's final text, and the first generation call of the next
\* turn sees no synthetic message of an earlier turn.
C29_SyntheticMessagesStayLocal ==
    /\ SyntheticCount(memory_messages) = 0
    /\ memory_messages = added
    /\ pc \in Active => Len(added) = 2 * chats - 1
    /\ pc = "Done" =>
          /\ Len(added) = 2 * chats
          /\ SubSeq(memory_messages, Len(memory_messages) - 1, Len(memory_messages)) =
                <<Msg("user", user_input), Msg("assistant", returned)>>
    /\ gen_calls = 1 =>
          /\ SyntheticCount(sent) = 0
          /\ pc \in Active => sent = GetMessages(system_message, memory_messages)

\* the first generation call of a second turn, made after a turn with three dispatches
C29_Witness ==
    /\ chats = 2
    /\ gen_calls = 1
    /\ pc = "Inspecting"
    /\ Len(sent) = 3
    /\ sent[2] = Msg("assistant", CleanUp(CalculatorDirective))
    /\ SyntheticCount(sent) = 0

\* the assistant messages added to the memory so far
AssistantAdded == SelectSeq(added, LAMBDA m : m.role = "assistant")

\* C30 as stated: no chat invocation appends more than one assistant message to the memory,
\* on any path, also when the final answer was stored and indexing the episode then raises.
C30_OneAssistantMessagePerChat == Len(AssistantAdded) <= chats

---------------------------------------------------------------------------
(* Claims about the backend wrapper, the failed turn, the directive, the search tool and
   the index *)

\* the waits a call has made after `failures` failed requests: 1, 2, 4, ...
WaitsAfter(failures) == [i \in 1..failures |-> 2 ^ (i - 1)]

C32_FailedTurnLeavesIndex ==
    [][(pc' \in Active \/ (pc \in Active /\ failed' = "generation")) =>
          /\ documents' = documents
          /\ Len(documents') = Len(documents)
          /\ store_file' = store_file]_vars

\* a follow-up generation call failed on an agent whose collection and snapshot hold a
\* knowledge document
C32_Witness ==
    /\ pc = "Done"
    /\ failed = "generation"
    /\ gen_calls = 2
    /\ documents = <<<<"tea">>>>
    /\ store_file = PickleFile(documents)

\* the trimmed text after the marker on the last line that starts with it, empty without one
LastValue(resp, marker) ==
    LET ls == Lines(resp)
        idx == {i \in DOMAIN ls : StartsWith(ls[i], marker)}
    IN IF idx = {} THEN <<>>
       ELSE Strip(Tail(ls[CHOOSE i \in idx : \A j \in idx : j <= i]))

\* the inspected response holds a directive with a name and an input value
LastDirective ==
    LastValue(response, "USE_TOOL:") # <<>> /\ LastValue(response, "INPUT:") # <<>>

\* C33: per inspected response at most one tool is dispatched; it is the tool named
\* on the last USE_TOOL: line, called with the value of the last INPUT: line, and a
\* response whose last name or last input value is empty after trimming is taken
\* as the final answer
C33_LastDirectiveWins ==
    /\ [](pc = "Dispatching" => LastDirective)
    /\ []((pc = "Done" /\ failed = "no" /\ gen_calls <= DispatchCap) => ~LastDirective)
    /\ []((pc = "Generating" /\ iteration >= 1) =>
            /\ LastDirective
            /\ messages[Len(messages) - 1] =
                   ToolMessage(LastValue(response, "USE_TOOL:"), tool_result)
            /\ \E out \in ExecuteTool(LastValue(response, "USE_TOOL:"),
                                      LastValue(response, "INPUT:"), TheStore, HAS_SKLEARN) :
                   out.result = tool_result /\ out.raised = tool_raised)
    /\ [](tool_execs <= gen_calls)
    /\ [][tool_execs' # tool_execs =>
             /\ tool_execs' = tool_execs + 1
             /\ gen_calls' = gen_calls
             /\ Len(messages') = Len(messages) + 2]_vars

\* the text with two USE_TOOL: lines and two INPUT: lines made the calculator divide by zero
C33_Witness ==
    /\ pc = "Generating"
    /\ iteration = 1
    /\ tool_execs = 1
    /\ response = FourLines
    /\ LastValue(response, "USE_TOOL:") = <<"Calculator">>
    /\ LastValue(response, "INPUT:") = <<"1/0">>
    /\ messages[Len(messages) - 1] = ToolMessage(<<"Calculator">>, tool_result)
    /\ tool_result # <<>>

\* the text format_context makes of the documents at the positions top, in that order
ContextOf(top) ==
    <<"Relevant information from knowledge base:", "\n", "\n">>
        \o (IF Len(top) >= 1 THEN <<"[1]", " ">> \o documents[top[1]] \o <<"\n", "\n">> ELSE <<>>)
        \o (IF Len(top) >= 2 THEN <<"[2]", " ">> \o documents[top[2]] \o <<"\n", "\n">> ELSE <<>>)

\* the rankings of min(2, count()) distinct stored documents; with keyword scoring the
\* first of two scores no less than the second
TopTwo ==
    {top \in UNION {[1..k -> DOMAIN documents] : k \in {Min(SearchLimit, Len(documents))}} :
        /\ \A i, j \in DOMAIN top : i # j => top[i] # top[j]
        /\ (~HAS_SKLEARN /\ Len(top) = 2) =>
              \E sims \in {KeywordSimilarities(LastValue(response, "INPUT:"), documents)} :
                 ScoreLeq(sims[top[2]], sims[top[1]])}

\* the last dispatch of this chat called the SearchKnowledge tool
SearchDispatched ==
    /\ pc = "Generating"
    /\ iteration >= 1
    /\ Lower(LastValue(response, "USE_TOOL:")) = <<"searchknowledge">>

\* C34: the SearchKnowledge tool returns the "no results" string exactly when the
\* index is empty, and for a non-empty index the formatted context of min(2, count())
\* documents numbered [1], [2] in ranking order, whatever their scores
C34_SearchReturnsContext ==
    SearchDispatched =>
        /\ (tool_result = NoResultsText) <=> (documents = <<>>)
        /\ documents # <<>> => \E top \in TopTwo : tool_result = ContextOf(top)

\* index(), clear() or the load of a construction was the last call and it returned
CompletedMutation == vs_op.op \in {"add", "clear", "init", "construct", "crash"} /\ ~vs_op.raised

\* the scoring structures of the active strategy are those of the current collection:
\* none for keyword scoring and for an empty collection, otherwise a fitted vectorizer
\* and a matrix with one row per stored document, in order
StructuresDerived ==
    IF HAS_SKLEARN /\ documents # <<>>
    THEN vectorizer = "fitted" /\ tfidf_matrix.has /\ tfidf_matrix.docs = documents
    ELSE vectorizer = "none" /\ tfidf_matrix = NoMatrix

\* C35: after every completed index(), clear() and load at construction the scoring
\* structures are absent for an empty collection and otherwise cover every stored
\* document, and a snapshot that was written holds the document list and nothing else
C35_StructuresFollowCollection ==
    CompletedMutation =>
        /\ StructuresDerived
        /\ store_file.state = "ok" =>
              /\ DOMAIN store_file.data = {"documents"}
              /\ store_file = PickleFile(store_file.data.documents)

====
